---- MODULE Spec2Model ----
(***************************************************************************)
(* Model of corenet/data/datasets/language_modeling/base_lm.py:            *)
(* _process_text, BaseLMIterableDataset._tokenize_text, generate_sample    *)
(* and __iter__.                                                           *)
(*                                                                         *)
(* A text is a sequence of one-character strings.  A tensor is a sequence  *)
(* of token ids (1-based here, 0-based in the source).  Python's None is   *)
(* the empty tuple, which no text record, output or tensor here equals.    *)
(***************************************************************************)
EXTENDS Integers, Sequences, FiniteSets, TLC

VARIABLES
    sequence_length,          \* self.sequence_length
    min_tokens_per_text,      \* self.min_tokens_per_text
    min_characters_per_text,  \* self.min_characters_per_text
    shuffle_data,             \* self.shuffle_data
    random_seed,              \* opts "dataset.language_modeling.random_seed"
    tokenizer,                \* self.tokenizer
    rank,                     \* self.rank        (process_rank)
    world_size,               \* self.world_size  (num_processes)
    num_workers,              \* self.num_workers (workers_per_process)
    worker_id,                \* self.worker_id
    overridden,               \* does the class override generate_sample?
    it,                       \* the generator object made by the last iter(dataset)
    prev,                     \* history: the last generator that ran to its end
    last,                     \* history: the last direct _tokenize_text call
    grid                      \* the coordinates computed by the workers of a topology

config == <<sequence_length, min_tokens_per_text, min_characters_per_text,
            shuffle_data, random_seed>>
topology == <<rank, world_size, num_workers, worker_id>>
vars == <<config, tokenizer, topology, overridden, it, prev, last, grid>>

None == <<>>

(***************************************************************************)
(* Bounds of the model.                                                    *)
(***************************************************************************)
MaxTextLen == 3
MaxSeqLen == 3
MaxMinTokens == 2
MaxMinChars == 3
MaxProcesses == 2
MaxWorkers == 2
MaxUnits == 4
GridMaxProcesses == 3
GridMaxWorkers == 3

(***************************************************************************)
(* Texts.                                                                  *)
(***************************************************************************)
Punctuation == {"."}
Whitespace == {" "}
Alphabet == {"H"} \cup Punctuation \cup Whitespace

Texts == UNION {[1..n -> Alphabet] : n \in 0..MaxTextLen}

Min(a, b) == IF a < b THEN a ELSE b

\* str.lower, character by character
Lower(text) == [i \in 1..Len(text) |-> IF text[i] = "H" THEN "h" ELSE text[i]]

\* text.translate(str.maketrans("", "", string.punctuation))
IsKept(c) == c \notin Punctuation
RemovePunctuation(text) == SelectSeq(text, IsKept)

RECURSIVE LStrip(_)
LStrip(text) ==
    IF text = <<>> THEN <<>>
    ELSE IF Head(text) \in Whitespace THEN LStrip(Tail(text))
    ELSE text

RECURSIVE RStrip(_)
RStrip(text) ==
    IF text = <<>> THEN <<>>
    ELSE IF text[Len(text)] \in Whitespace THEN RStrip(SubSeq(text, 1, Len(text) - 1))
    ELSE text

\* str.strip
Strip(text) == RStrip(LStrip(text))

\* re.sub(r"\s+", " ", text): every maximal run of whitespace becomes one space
RECURSIVE CollapseWhitespace(_)
CollapseWhitespace(text) ==
    IF text = <<>> THEN <<>>
    ELSE IF Head(text) \in Whitespace
         THEN <<" ">> \o CollapseWhitespace(LStrip(Tail(text)))
         ELSE <<Head(text)>> \o CollapseWhitespace(Tail(text))

\* _process_text
ProcessText(text) == CollapseWhitespace(Strip(RemovePunctuation(Lower(text))))

(***************************************************************************)
(* The tokenizer, an external collaborator: a callable from text to token  *)
(* ids with a pad_token_id and a vocab_size.  Three tokenizers stand for   *)
(* it: one id per character, one id per whitespace-separated word, and one *)
(* id per character after a begin-of-sequence id.                          *)
(***************************************************************************)
VocabSize == 8
BosId == 4

CharId(c) == CASE c = "H" -> 1 [] c = "." -> 2 [] OTHER -> 3

CharTokens(text) == [i \in 1..Len(text) |-> CharId(text[i])]

RECURSIVE WordTokens(_, _)
WordTokens(text, wordLen) ==
    IF text = <<>>
    THEN IF wordLen > 0 THEN <<BosId + Min(wordLen, VocabSize - 1 - BosId)>> ELSE <<>>
    ELSE IF Head(text) \in Whitespace
         THEN (IF wordLen > 0 THEN <<BosId + Min(wordLen, VocabSize - 1 - BosId)>> ELSE <<>>)
              \o WordTokens(Tail(text), 0)
         ELSE WordTokens(Tail(text), wordLen + 1)

Tokenizers ==
    { [kind |-> "char", pad_token_id |-> 0],
      [kind |-> "word", pad_token_id |-> 0],
      [kind |-> "bos",  pad_token_id |-> 1] }

\* self.tokenizer(text)
Tokenize(tok, text) ==
    CASE tok.kind = "char" -> CharTokens(text)
      [] tok.kind = "word" -> WordTokens(text, 0)
      [] OTHER -> <<BosId>> \o CharTokens(text)

\* BaseLMIterableDataset.pad_token_id
PadTokenId == tokenizer.pad_token_id

(***************************************************************************)
(* _tokenize_text                                                          *)
(***************************************************************************)
\* a variant of CharFilterRejects: the threshold itself is rejected too
CharFilterRejects_inclusive(text) == Len(ProcessText(text)) <= min_characters_per_text

\* line 106: the character filter's test
CharFilterRejects(text) == Len(ProcessText(text)) < min_characters_per_text

\* a variant of TokenFilterRejects: the threshold itself is rejected too
TokenFilterRejects_inclusive(n_tokens) == n_tokens <= min_tokens_per_text

\* line 112: the token filter's test
TokenFilterRejects(n_tokens) == n_tokens < min_tokens_per_text

\* a variant of ValidSeqLength: the buffer's last position is never filled
ValidSeqLength_short(n_tokens) == Min(n_tokens, sequence_length)

\* line 116
ValidSeqLength(n_tokens) == Min(n_tokens, sequence_length + 1)

\* lines 117-121: torch.full(size=(sequence_length + 1,), fill_value=pad_token_id)
TorchFull == [i \in 1..(sequence_length + 1) |-> PadTokenId]

\* lines 116-123: content_tensor[:valid_seq_length] = tokenized_text[:valid_seq_length]
ContentTensor(tokenized_text) ==
    LET valid_seq_length == ValidSeqLength(Len(tokenized_text))
    IN [i \in 1..(sequence_length + 1) |->
           IF i <= valid_seq_length THEN tokenized_text[i] ELSE TorchFull[i]]

\* a variant of Output: the targets are not shifted
Output_unshifted(content_tensor) ==
    [samples |-> SubSeq(content_tensor, 1, Len(content_tensor) - 1),
     targets |-> SubSeq(content_tensor, 1, Len(content_tensor) - 1)]

\* lines 124-127: {"samples": content_tensor[:-1], "targets": content_tensor[1:]}
Output(content_tensor) ==
    [samples |-> SubSeq(content_tensor, 1, Len(content_tensor) - 1),
     targets |-> SubSeq(content_tensor, 2, Len(content_tensor))]

\* a variant of TokenizeText: the result of the last direct call is kept and
\* returned again for the same text
TokenizeText_cached(text) ==
    IF last # None /\ last.call = "_tokenize_text" /\ last.text = text
    THEN last.result
    ELSE IF CharFilterRejects(text)
    THEN [ret |-> None, events |-> <<"_process_text">>, content |-> None]
    ELSE LET tokenized_text == Tokenize(tokenizer, text)
             n_tokens == Len(tokenized_text)
         IN IF TokenFilterRejects(n_tokens)
            THEN [ret |-> None, events |-> <<"_process_text", "tokenizer">>,
                  content |-> None]
            ELSE LET content_tensor == ContentTensor(tokenized_text)
                 IN [ret |-> Output(content_tensor),
                     events |-> <<"_process_text", "tokenizer">>,
                     content |-> content_tensor]

\* a variant of TokenizeText: the text is tokenized before the character filter
TokenizeText_tokenizer_first(text) ==
    LET tokenized_text == Tokenize(tokenizer, text)
        n_tokens == Len(tokenized_text)
    IN IF CharFilterRejects(text)
       THEN [ret |-> None, events |-> <<"tokenizer", "_process_text">>, content |-> None]
       ELSE IF TokenFilterRejects(n_tokens)
            THEN [ret |-> None, events |-> <<"tokenizer", "_process_text">>,
                  content |-> None]
            ELSE LET content_tensor == ContentTensor(tokenized_text)
                 IN [ret |-> Output(content_tensor),
                     events |-> <<"tokenizer", "_process_text">>,
                     content |-> content_tensor]

\* The whole call.  ret is the returned value; events lists the collaborators
\* invoked, in order; content is the content buffer built (None when none was).
TokenizeText(text) ==
    IF CharFilterRejects(text)
    THEN [ret |-> None, events |-> <<"_process_text">>, content |-> None]
    ELSE LET tokenized_text == Tokenize(tokenizer, text)
             n_tokens == Len(tokenized_text)
         IN IF TokenFilterRejects(n_tokens)
            THEN [ret |-> None, events |-> <<"_process_text", "tokenizer">>,
                  content |-> None]
            ELSE LET content_tensor == ContentTensor(tokenized_text)
                 IN [ret |-> Output(content_tensor),
                     events |-> <<"_process_text", "tokenizer">>,
                     content |-> content_tensor]

(***************************************************************************)
(* Initial values shared by the specifications, and direct calls of        *)
(* _tokenize_text on a constructed dataset.                                *)
(***************************************************************************)
NoReads == [rank |-> 0, world_size |-> 0, num_workers |-> 0, worker_id |-> 0]

\* No iter(dataset) yet.  A generator object is a record: its state ("created"
\* before its body has run, "suspended" at a yield, "exhausted" after its end,
\* "raised" after an exception), the locals scaled_rank and scaled_world_size
\* of __iter__ (-1: unbound), the exception raised, and as history at_creation
\* (the coordinate the topology gave when iter was called), reads (how often
\* the body read each topology accessor), generate_sample_calls, log (the
\* _tokenize_text calls made for it) and yielded (what the consumer received).
NoIterator ==
    [state |-> "none", scaled_rank |-> -1, scaled_world_size |-> -1,
     error |-> "", at_creation |-> <<-1, -1>>, reads |-> NoReads,
     generate_sample_calls |-> 0, log |-> <<>>, yielded |-> <<>>]

NoGrid == [w \in {} |-> None]

\* __init__ with the defaults of add_arguments for shuffle_data and random_seed
InitDefaults ==
    /\ shuffle_data = FALSE
    /\ random_seed = 0

InitSingleWorker ==
    /\ rank = 0 /\ world_size = 1 /\ num_workers = 1 /\ worker_id = 0

InitTok ==
    /\ sequence_length \in 1..MaxSeqLen
    /\ min_tokens_per_text \in 0..MaxMinTokens
    /\ min_characters_per_text \in 0..MaxMinChars
    /\ InitDefaults
    /\ tokenizer \in Tokenizers
    /\ InitSingleWorker
    /\ overridden = TRUE
    /\ it = NoIterator
    /\ prev = None
    /\ last = None
    /\ grid = NoGrid

\* dataset._tokenize_text(text), called directly
TokenizeTextCall(text) ==
    /\ last' = [call |-> "_tokenize_text", text |-> text, tokenizer |-> tokenizer,
                result |-> TokenizeText(text)]
    /\ UNCHANGED <<config, tokenizer, topology, overridden, it, prev, grid>>

NextTok == \E text \in Texts : TokenizeTextCall(text)

SpecTok == InitTok /\ [][NextTok]_vars

(***************************************************************************)
(* __iter__ and generate_sample.                                           *)
(***************************************************************************)
\* line 207
ScaledWorldSize(ws, nw) == ws * nw

\* a variant of ScaledRank: the rank is scaled by the number of processes
ScaledRank_by_world_size(r, nw, w) == r * world_size + w

\* line 208
ScaledRank(r, nw, w) == r * nw + w

\* The corpus a subclass reads: MaxUnits raw text units, dealt round-robin to
\* the scaled_world_size shards.
CorpusTexts ==
    << <<"H", " ", "H">>, <<".">>, <<"H">>, <<" ", "H", ".">>, <<>> >>

Corpus == [i \in 1..MaxUnits |-> CorpusTexts[((i - 1) % Len(CorpusTexts)) + 1]]

RECURSIVE ShardIndices(_, _, _)
ShardIndices(i, scaled_rank, scaled_world_size) ==
    IF i > MaxUnits THEN <<>>
    ELSE (IF (i - 1) % scaled_world_size = scaled_rank THEN <<i>> ELSE <<>>)
         \o ShardIndices(i + 1, scaled_rank, scaled_world_size)

ShardUnits(scaled_rank, scaled_world_size) ==
    LET idx == ShardIndices(1, scaled_rank, scaled_world_size)
    IN [k \in 1..Len(idx) |-> Corpus[idx[k]]]

\* a variant of BaseGenerateSample: an empty iterator instead of the exception
BaseGenerateSample_silent(scaled_rank, scaled_world_size) ==
    [raised |-> "", units |-> <<>>]

\* lines 169-196: generate_sample of the base class raises when it is called
BaseGenerateSample(scaled_rank, scaled_world_size) ==
    [raised |-> "NotImplementedError", units |-> <<>>]

\* self.generate_sample(scaled_rank=..., scaled_world_size=...): the method of
\* the subclass when it overrides the base's; a subclass reads the raw text
\* units of its shard.
GenerateSample(scaled_rank, scaled_world_size) ==
    IF overridden
    THEN [raised |-> "", units |-> ShardUnits(scaled_rank, scaled_world_size)]
    ELSE BaseGenerateSample(scaled_rank, scaled_world_size)

\* a variant of IterStart: the coordinate of the previous iterator is reused
IterStart_cached(i) ==
    LET scaled_world_size ==
            IF prev # None THEN prev.scaled_world_size
            ELSE ScaledWorldSize(world_size, num_workers)
        scaled_rank ==
            IF prev # None THEN prev.scaled_rank
            ELSE ScaledRank(rank, num_workers, worker_id)
        g == GenerateSample(scaled_rank, scaled_world_size)
    IN [i EXCEPT !.scaled_world_size = scaled_world_size,
                 !.scaled_rank = scaled_rank,
                 !.reads = [rank |-> @.rank + 1, world_size |-> @.world_size + 1,
                            num_workers |-> @.num_workers + 2,
                            worker_id |-> @.worker_id + 1],
                 !.generate_sample_calls = @ + 1,
                 !.state = IF g.raised # "" THEN "raised" ELSE "running",
                 !.error = g.raised]

\* lines 207-211, run by the first next() on the generator: world_size and
\* num_workers are read for scaled_world_size, rank, num_workers and worker_id
\* for scaled_rank, and generate_sample is called
IterStart(i) ==
    LET scaled_world_size == ScaledWorldSize(world_size, num_workers)
        scaled_rank == ScaledRank(rank, num_workers, worker_id)
        g == GenerateSample(scaled_rank, scaled_world_size)
    IN [i EXCEPT !.scaled_world_size = scaled_world_size,
                 !.scaled_rank = scaled_rank,
                 !.reads = [rank |-> @.rank + 1, world_size |-> @.world_size + 1,
                            num_workers |-> @.num_workers + 2,
                            worker_id |-> @.worker_id + 1],
                 !.generate_sample_calls = @ + 1,
                 !.state = IF g.raised # "" THEN "raised" ELSE "running",
                 !.error = g.raised]

\* a variant of YieldFrom: the element does not reach the consumer
YieldFrom_dropped(i, element) == [i EXCEPT !.state = "suspended"]

\* line 209: yield from hands the element of generate_sample to the consumer
YieldFrom(i, element) ==
    [i EXCEPT !.yielded = Append(@, element), !.state = "suspended"]

\* The subclass's generate_sample runs to its next yield: every raw text unit
\* goes through _tokenize_text, and a unit that gives None is skipped.
RECURSIVE Advance(_)
Advance(i) ==
    LET units == GenerateSample(i.scaled_rank, i.scaled_world_size).units
        k == Len(i.log) + 1
    IN IF k > Len(units)
       THEN [i EXCEPT !.state = "exhausted"]
       ELSE LET r == TokenizeText(units[k])
                j == [i EXCEPT !.log = Append(@, [text |-> units[k],
                                                  tokenizer |-> tokenizer,
                                                  ret |-> r.ret])]
            IN IF r.ret = None THEN Advance(j) ELSE YieldFrom(j, r.ret)

\* iter(dataset): __iter__ is a generator function, so the call makes a
\* generator object and runs none of the body.  prev keeps the generator it
\* replaces when that one ran to its end and the topology gives the same shard
\* coordinate now.
Iter ==
    LET now == <<ScaledRank(rank, num_workers, worker_id),
                 ScaledWorldSize(world_size, num_workers)>>
    IN /\ it' = [NoIterator EXCEPT !.state = "created", !.at_creation = now]
       /\ prev' = IF it.state = "exhausted"
                     /\ <<it.scaled_rank, it.scaled_world_size>> = now
                  THEN [scaled_rank |-> it.scaled_rank,
                        scaled_world_size |-> it.scaled_world_size,
                        log |-> it.log, yielded |-> it.yielded]
                  ELSE None
       /\ UNCHANGED <<config, tokenizer, topology, overridden, last, grid>>

\* next(it) on a generator that has not ended.  (On one that has ended, next
\* raises StopIteration and changes nothing.)
Pull ==
    /\ it.state \in {"created", "suspended"}
    /\ LET started == IF it.state = "created" THEN IterStart(it) ELSE it
       IN it' = IF started.state = "raised" THEN started ELSE Advance(started)
    /\ UNCHANGED <<config, tokenizer, topology, overridden, prev, last, grid>>

\* dataset.generate_sample(scaled_rank, scaled_world_size), called directly
GenerateSampleCall ==
    LET g == GenerateSample(ScaledRank(rank, num_workers, worker_id),
                            ScaledWorldSize(world_size, num_workers))
    IN /\ last' = [call |-> "generate_sample",
                   outcome |-> IF g.raised # "" THEN g.raised ELSE "generator"]
       /\ UNCHANGED <<config, tokenizer, topology, overridden, it, prev, grid>>

\* The topology accessors change value (a worker process is forked, the
\* process group is initialised).
SetTopology(r, ws, nw, w) ==
    /\ <<r, ws, nw, w>> # topology
    /\ rank' = r /\ world_size' = ws /\ num_workers' = nw /\ worker_id' = w
    /\ UNCHANGED <<config, tokenizer, overridden, it, prev, last, grid>>

\* The tokenizer's mapping changes (its state is its own).
SetTokenizer(tok) ==
    /\ tok # tokenizer
    /\ tokenizer' = tok
    /\ UNCHANGED <<config, topology, overridden, it, prev, last, grid>>

Topologies(maxProcesses, maxWorkers) ==
    {t \in (0..(maxProcesses - 1)) \X (1..maxProcesses)
             \X (1..maxWorkers) \X (0..(maxWorkers - 1)) :
        t[1] < t[2] /\ t[4] < t[3]}

InitTopology ==
    \E t \in Topologies(MaxProcesses, MaxWorkers) :
        rank = t[1] /\ world_size = t[2] /\ num_workers = t[3] /\ worker_id = t[4]

\* The iteration driver on a fixed topology.
Init ==
    /\ sequence_length \in {1, MaxSeqLen}
    /\ min_tokens_per_text \in {0, MaxMinTokens}
    /\ min_characters_per_text \in {0, MaxMinChars}
    /\ InitDefaults
    /\ tokenizer \in Tokenizers
    /\ InitTopology
    /\ overridden \in BOOLEAN
    /\ it = NoIterator
    /\ prev = None
    /\ last = None
    /\ grid = NoGrid

Next ==
    \/ Iter
    \/ Pull
    \/ GenerateSampleCall

Spec == Init /\ [][Next]_vars

\* The iteration driver while the topology changes.
InitTopo ==
    /\ sequence_length = MaxSeqLen
    /\ min_tokens_per_text = 0
    /\ min_characters_per_text = 1
    /\ InitDefaults
    /\ tokenizer = [kind |-> "char", pad_token_id |-> 0]
    /\ InitTopology
    /\ overridden \in BOOLEAN
    /\ it = NoIterator
    /\ prev = None
    /\ last = None
    /\ grid = NoGrid

NextTopo ==
    \/ Iter
    \/ Pull
    \/ \E t \in Topologies(MaxProcesses, MaxWorkers) : SetTopology(t[1], t[2], t[3], t[4])

SpecTopo == InitTopo /\ [][NextTopo]_vars

\* Iterators created one after the other while the tokenizer changes.
InitReplay ==
    /\ sequence_length = MaxSeqLen
    /\ min_tokens_per_text \in {0, MaxMinTokens}
    /\ min_characters_per_text \in {0, 1}
    /\ shuffle_data \in BOOLEAN
    /\ random_seed = 0
    /\ tokenizer \in Tokenizers
    /\ rank = 0 /\ world_size = 1 /\ num_workers = MaxWorkers
    /\ worker_id \in 0..(MaxWorkers - 1)
    /\ overridden = TRUE
    /\ it = NoIterator
    /\ prev = None
    /\ last = None
    /\ grid = NoGrid

NextReplay ==
    \/ Iter
    \/ Pull
    \/ \E tok \in Tokenizers : SetTokenizer(tok)
    \/ \E k \in 1..Len(Corpus) : TokenizeTextCall(Corpus[k])

SpecReplay == InitReplay /\ [][NextReplay]_vars

\* The workers of one topology, each starting its own iterator.
InitGrid ==
    /\ sequence_length = MaxSeqLen
    /\ min_tokens_per_text = 0
    /\ min_characters_per_text = 0
    /\ InitDefaults
    /\ tokenizer = [kind |-> "char", pad_token_id |-> 0]
    /\ rank = 0 /\ worker_id = 0
    /\ world_size \in 1..GridMaxProcesses
    /\ num_workers \in 1..GridMaxWorkers
    /\ overridden = TRUE
    /\ it = NoIterator
    /\ prev = None
    /\ last = None
    /\ grid = [p \in (0..(world_size - 1)) \X (0..(num_workers - 1)) |-> None]

\* lines 207-208 in worker w of process p
GridIter(p, w) ==
    /\ grid[<<p, w>>] = None
    /\ grid' = [grid EXCEPT ![<<p, w>>] =
                   [scaled_rank |-> ScaledRank(p, num_workers, w),
                    scaled_world_size |-> ScaledWorldSize(world_size, num_workers)]]
    /\ UNCHANGED <<config, tokenizer, topology, overridden, it, prev, last>>

NextGrid == \E pw \in DOMAIN grid : GridIter(pw[1], pw[2])

SpecGrid == InitGrid /\ [][NextGrid]_vars

(***************************************************************************)
(* Properties of _tokenize_text, checked under SpecTok.                    *)
(***************************************************************************)
\* The number of characters of the normalized form, counted on the raw text:
\* the characters that are neither punctuation nor whitespace, plus one for
\* every whitespace run that separates two of them.
NormalizedLength(text) ==
    LET s == SelectSeq(text, IsKept)
    IN Cardinality({i \in 1..Len(s) : s[i] \notin Whitespace})
       + Cardinality({i \in 1..Len(s) :
              /\ s[i] \in Whitespace
              /\ i < Len(s)
              /\ s[i + 1] \notin Whitespace
              /\ \E j \in 1..(i - 1) : s[j] \notin Whitespace})

RejectedByCharFilter == last.result.ret = None /\ last.result.events = <<"_process_text">>

\* C3: a call is rejected at the character filter exactly when the normalized
\* form of its text has strictly fewer characters than min_characters_per_text;
\* a length equal to the threshold passes, and a threshold of 0 passes every text.
C3_CharFilterDecision ==
    last # None =>
        /\ RejectedByCharFilter <=>
               NormalizedLength(last.text) < min_characters_per_text
        /\ min_characters_per_text = 0 => ~RejectedByCharFilter
        /\ Len(ProcessText(last.text)) = NormalizedLength(last.text)

C3_Witness ==
    /\ last # None
    /\ min_characters_per_text = MaxMinChars
    /\ Len(last.text) = MaxTextLen
    /\ NormalizedLength(last.text) = MaxMinChars - 1
    /\ RejectedByCharFilter

IsPair(ret) ==
    /\ ret # None
    /\ DOMAIN ret = {"samples", "targets"}

\* C4: a text with fewer than min_tokens_per_text tokens gives no output,
\* whatever the character filter decided; a text that passed the character
\* filter and has at least min_tokens_per_text tokens gives an output pair.
C4_TokenFilter ==
    last # None =>
        LET n_tokens == Len(Tokenize(last.tokenizer, last.text))
        IN /\ n_tokens < min_tokens_per_text => last.result.ret = None
           /\ (~RejectedByCharFilter /\ n_tokens >= min_tokens_per_text)
                  => IsPair(last.result.ret)

C4_Witness ==
    /\ last # None
    /\ ~RejectedByCharFilter
    /\ min_characters_per_text > 0
    /\ Len(Tokenize(last.tokenizer, last.text)) = min_tokens_per_text - 1
    /\ last.result.ret = None

C4_WitnessZeroTokens ==
    /\ last # None
    /\ Len(Tokenize(last.tokenizer, last.text)) = 0
    /\ min_tokens_per_text = 0
    /\ IsPair(last.result.ret)

\* C5: the content buffer of an accepted text with tokens t (n of them) has
\* sequence_length + 1 positions; position i holds t[i] for i up to
\* min(n, sequence_length + 1) and pad_token_id after that.
C5_ContentBuffer ==
    (last # None /\ last.result.ret # None) =>
        LET t == Tokenize(last.tokenizer, last.text)
            n == Len(t)
            L == sequence_length
            buffer == last.result.content
            filled == IF n < L + 1 THEN n ELSE L + 1
        IN /\ Len(buffer) = L + 1
           /\ \A i \in 1..(L + 1) :
                  buffer[i] = IF i <= filled THEN t[i] ELSE last.tokenizer.pad_token_id
           /\ n >= L + 1 => buffer = SubSeq(t, 1, L + 1)

C5_WitnessTruncated ==
    /\ last # None /\ last.result.ret # None
    /\ Len(Tokenize(last.tokenizer, last.text)) > sequence_length + 1
    /\ sequence_length > 1

C5_WitnessPadded ==
    /\ last # None /\ last.result.ret # None
    /\ Len(Tokenize(last.tokenizer, last.text)) \in 1..(sequence_length - 1)
    /\ last.tokenizer.pad_token_id \notin
           {Tokenize(last.tokenizer, last.text)[i] :
                i \in 1..Len(Tokenize(last.tokenizer, last.text))}

\* C6: the output of an accepted text has exactly the entries samples and
\* targets, both sequence_length long; samples is the buffer without its last
\* position and targets the buffer without its first, so targets[i] is
\* samples[i+1] and samples followed by the last target is the buffer.
C6_NextTokenShift ==
    (last # None /\ last.result.ret # None) =>
        LET L == sequence_length
            buffer == last.result.content
            samples == last.result.ret.samples
            targets == last.result.ret.targets
        IN /\ DOMAIN last.result.ret = {"samples", "targets"}
           /\ Len(samples) = L /\ Len(targets) = L
           /\ \A i \in 1..L : samples[i] = buffer[i] /\ targets[i] = buffer[i + 1]
           /\ \A i \in 1..(L - 1) : targets[i] = samples[i + 1]
           /\ samples \o <<targets[L]>> = buffer

C6_Witness ==
    /\ last # None /\ last.result.ret # None
    /\ sequence_length = MaxSeqLen
    /\ last.result.ret.samples # last.result.ret.targets
    /\ Len(Tokenize(last.tokenizer, last.text)) >= 2

\* C10: in one call the character filter comes first; the tokenizer is not
\* invoked for a text the character filter rejects, and is invoked exactly
\* once, after the filter, for every other text.
C10_FilterBeforeTokenize ==
    last # None =>
        IF NormalizedLength(last.text) < min_characters_per_text
        THEN last.result.events = <<"_process_text">>
        ELSE last.result.events = <<"_process_text", "tokenizer">>

C10_Witness ==
    /\ last # None
    /\ last.result.events = <<"_process_text", "tokenizer">>
    /\ last.result.ret = None
    /\ min_characters_per_text > 0

(***************************************************************************)
(* Properties of __iter__ and generate_sample.                             *)
(***************************************************************************)
Computed == {pw \in DOMAIN grid : grid[pw] # None}

\* C1: in a topology of world_size processes with num_workers workers each,
\* the workers' scaled_rank values are pairwise distinct and lie in
\* 0..scaled_world_size-1, all workers compute the same scaled_world_size =
\* world_size * num_workers, and together the scaled ranks are exactly
\* 0..scaled_world_size-1 (in the 2x2 topology, process 1 worker 1 gets 3).
C1_ShardUniqueness ==
    LET size == world_size * num_workers
    IN /\ \A a \in Computed :
              /\ grid[a].scaled_rank \in 0..(size - 1)
              /\ grid[a].scaled_world_size = size
       /\ \A a, b \in Computed : a # b => grid[a].scaled_rank # grid[b].scaled_rank
       /\ Computed = DOMAIN grid =>
              {grid[a].scaled_rank : a \in Computed} = 0..(size - 1)
       /\ (world_size = 2 /\ num_workers = 2 /\ <<1, 1>> \in Computed) =>
              grid[<<1, 1>>].scaled_rank = 3

C1_Witness ==
    /\ world_size = GridMaxProcesses - 1
    /\ num_workers = GridMaxWorkers
    /\ Computed = DOMAIN grid

\* What the two filters and the framing give for one text, stated on the text.
RefAccepted(tok, text) ==
    /\ NormalizedLength(text) >= min_characters_per_text
    /\ Len(Tokenize(tok, text)) >= min_tokens_per_text

RefPair(tok, text) ==
    LET t == Tokenize(tok, text)
        buffer == [i \in 1..(sequence_length + 1) |->
                      IF i <= Len(t) THEN t[i] ELSE tok.pad_token_id]
    IN [samples |-> [i \in 1..sequence_length |-> buffer[i]],
        targets |-> [i \in 1..sequence_length |-> buffer[i + 1]]]

RefResult(tok, text) == IF RefAccepted(tok, text) THEN RefPair(tok, text) ELSE None

RECURSIVE RefYield(_, _)
RefYield(units, toks) ==
    IF units = <<>> THEN <<>>
    ELSE (IF RefAccepted(Head(toks), Head(units))
          THEN <<RefPair(Head(toks), Head(units))>> ELSE <<>>)
         \o RefYield(Tail(units), Tail(toks))

Started == {"suspended", "exhausted", "raised"}

C7_UnimplementedFailsLoudly ==
    ~overridden =>
        /\ it.yielded = <<>>
        /\ it.state \in {"none", "created", "raised"}
        /\ it.state = "raised" => it.error = "NotImplementedError"
        /\ (last # None /\ last.call = "generate_sample") =>
               last.outcome = "NotImplementedError"

C7_Witness ==
    /\ ~overridden
    /\ it.state = "raised"
    /\ last # None

\* C8 as stated: the coordinate of a started iterator is the one the topology
\* gave when the iterator was created, and generate_sample was called once.
C8_ReadAtCreation ==
    it.state \in Started =>
        /\ <<it.scaled_rank, it.scaled_world_size>> = it.at_creation
        /\ it.generate_sample_calls = 1

C8_State ==
    /\ it.state \in {"none", "created"} =>
           /\ it.reads = NoReads
           /\ it.generate_sample_calls = 0
    /\ it.state \in Started =>
           /\ it.reads = [rank |-> 1, world_size |-> 1, num_workers |-> 2,
                          worker_id |-> 1]
           /\ it.generate_sample_calls = 1

C8_Step ==
    /\ (it.state = "created" /\ it'.state \in Started) =>
           /\ it'.scaled_rank = rank * num_workers + worker_id
           /\ it'.scaled_world_size = world_size * num_workers
    /\ (it.state \in Started /\ it'.state \in Started) =>
           /\ it'.scaled_rank = it.scaled_rank
           /\ it'.scaled_world_size = it.scaled_world_size
           /\ it'.reads = it.reads
           /\ it'.generate_sample_calls = it.generate_sample_calls

\* C8, amended: creating an iterator reads nothing; the first pull of every
\* iterator reads the topology accessors (num_workers twice, the others
\* once), computes the coordinate from the values they have then and calls
\* generate_sample once with it; later pulls and later changes of the topology
\* leave the coordinate of that iterator alone.
C8_ReadAtFirstPull == []C8_State /\ [][C8_Step]_vars

C8_Witness ==
    /\ it.state = "suspended"
    /\ <<it.scaled_rank, it.scaled_world_size>> # it.at_creation
    /\ <<it.scaled_rank, it.scaled_world_size>> #
           <<rank * num_workers + worker_id, world_size * num_workers>>
    /\ Len(it.yielded) >= 1

SameTokenizerOutputs ==
    /\ Len(prev.log) = Len(it.log)
    /\ \A k \in 1..Len(it.log) : prev.log[k].tokenizer = it.log[k].tokenizer

C9_State ==
    /\ \A k \in 1..Len(it.log) :
           it.log[k].ret = RefResult(it.log[k].tokenizer, it.log[k].text)
    /\ (last # None /\ last.call = "_tokenize_text") =>
           last.result.ret = RefResult(last.tokenizer, last.text)
    /\ (/\ it.state = "exhausted"
        /\ prev # None
        /\ prev.scaled_rank = it.scaled_rank
        /\ prev.scaled_world_size = it.scaled_world_size
        /\ SameTokenizerOutputs) => it.yielded = prev.yielded

C9_Step == config' = config

\* C9: no call of _tokenize_text and no creation of or pull from an iterator
\* changes the configuration; the result of every _tokenize_text call is the
\* one its text, the configuration and the tokenizer of that very call give
\* (also right after the tokenizer changed); and an iterator that ran to its
\* end yields what the previous one for the same shard coordinate yielded,
\* the tokenizer having answered the same in both.
C9_Replayable == []C9_State /\ [][C9_Step]_vars

C9_Witness ==
    /\ it.state = "exhausted"
    /\ prev # None
    /\ prev.scaled_rank = it.scaled_rank
    /\ SameTokenizerOutputs
    /\ Len(it.yielded) >= 1
    /\ Len(it.yielded) < Len(it.log)
    /\ it.yielded = prev.yielded
    /\ last # None
    /\ last.tokenizer # it.log[1].tokenizer
    /\ last.text = it.log[1].text
    /\ last.result.ret # it.log[1].ret

====
